---- MODULE Spec2Model ----
(***************************************************************************)
(* Model of the KPay transaction comparison API (src/api-server.js):       *)
(* the two provider clients, the hash extractor, the discrepancy           *)
(* comparator and the Express route handlers that orchestrate them.        *)
(*                                                                         *)
(* JavaScript values are records tagged by "t": undefined, null, a plain   *)
(* object or an array.  A string is the sequence of its characters, so     *)
(* that startsWith, slice and the code-unit order of Array.prototype.sort  *)
(* are computed and not assumed.                                           *)
(***************************************************************************)
EXTENDS Integers, Sequences, FiniteSets, TLC

VARIABLES
    req,                \* the inbound request: its route and its query string
    pc,                 \* where the route handler is: received, awaiting, responded
    dragonGlassCall,    \* the callDragonGlassAPI promise of the request
    hgraphCall,         \* the callHGraphAPI promise of the request
    outbound,           \* the outbound requests issued so far, in order
    response,           \* the HTTP response sent, Undefined until then
    hash,               \* harness: argument of cleanTransactionHash
    cleaned,            \* harness: cleanTransactionHash(hash)
    cleanedTwice,       \* harness: cleanTransactionHash(cleaned)
    dragonGlassHashes,  \* harness: first argument of compareAndGetStatus
    hgraphHashes,       \* harness: second argument of compareAndGetStatus
    comparisonResult,   \* harness: compareAndGetStatus(dragonGlassHashes, hgraphHashes)
    swappedResult,      \* harness: compareAndGetStatus(hgraphHashes, dragonGlassHashes)
    cleanCalls,         \* harness: how many times cleanTransactionHash was applied
    fixInput,           \* harness: argument of fixIntegerPrecision
    fixOutput,          \* harness: fixIntegerPrecision(fixInput)
    fixOutputTwice,     \* harness: fixIntegerPrecision(fixOutput)
    transformInput,     \* harness: argument of transformHGraphToDragonGlass
    transformOutput,    \* harness: transformHGraphToDragonGlass(transformInput)
    inflight            \* the compare requests in flight at once, by request

\* the state of the functions applied on their own and of concurrent requests
otherVars == <<fixInput, fixOutput, fixOutputTwice, transformInput,
               transformOutput, inflight>>

harnessVars == <<hash, cleaned, cleanedTwice, dragonGlassHashes, hgraphHashes,
                 comparisonResult, swappedResult, cleanCalls, otherVars>>

handlerVars == <<req, pc, dragonGlassCall, hgraphCall, outbound, response>>

vars == <<handlerVars, harnessVars>>

----------------------------------------------------------------------------
(* Bounds of the model *)

\* longest string handed to cleanTransactionHash on its own
MaxStrLen == 5
\* longest hash list handed to compareAndGetStatus on its own
MaxLen == 3
\* most transactions a provider returns in one response
MaxTx == 2
\* most transactions a provider returns to one of several concurrent requests
MaxInflightTx == 1

----------------------------------------------------------------------------
(* JavaScript values *)

Undefined == [t |-> "undefined"]
Null == [t |-> "null"]

EmptyObject == [t |-> "object"]
Str(s) == [t |-> "string", v |-> s]
Num(n) == [t |-> "number", v |-> n]
Array(s) == [t |-> "array", v |-> s]
ThrowError(message) == [t |-> "throw", message |-> message]

\* a result that has not been computed yet
Pending == [t |-> "pending"]
IsThrow(v) == "t" \in DOMAIN v /\ v.t = "throw"

\* !v
Falsy(v) ==
    \/ v.t \in {"undefined", "null"}
    \/ v.t = "string" /\ v.v = ""
    \/ v.t = "number" /\ v.v = 0

\* a || b
Or(a, b) == IF Falsy(a) THEN b ELSE a

\* v.k for an object v: undefined when v has no member k
Member(v, k) == IF k \in DOMAIN v THEN v[k] ELSE Undefined

Range(s) == {s[i] : i \in 1..Len(s)}

\* all sequences over S of length at most n
RECURSIVE SeqsUpTo(_, _)
SeqsUpTo(S, n) ==
    IF n = 0 THEN {<<>>}
    ELSE LET shorter == SeqsUpTo(S, n - 1)
         IN  shorter \cup {Append(s, x) : s \in {t \in shorter : Len(t) = n - 1}, x \in S}

\* UTF-16 code unit of the characters the model uses
CodeUnit(c) ==
    CASE c = "A" -> 65
      [] c = "B" -> 66
      [] c = "\\" -> 92
      [] c = "a" -> 97
      [] c = "b" -> 98
      [] c = "c" -> 99
      [] c = "x" -> 120

\* s.startsWith(p)
StartsWith(s, p) == Len(s) >= Len(p) /\ SubSeq(s, 1, Len(p)) = p

\* s.slice(n)
Slice(s, n) == SubSeq(s, n + 1, Len(s))

\* the two characters of the literal "\\x"
EscapePrefix == <<"\\", "x">>

\* a < b in the order Array.prototype.sort uses without a comparator:
\* code unit by code unit, a proper prefix first
RECURSIVE StringLess(_, _)
StringLess(a, b) ==
    IF Len(b) = 0 THEN FALSE
    ELSE IF Len(a) = 0 THEN TRUE
    ELSE IF CodeUnit(Head(a)) # CodeUnit(Head(b))
         THEN CodeUnit(Head(a)) < CodeUnit(Head(b))
         ELSE StringLess(Tail(a), Tail(b))

RECURSIVE SortInsert(_, _)
SortInsert(x, s) ==
    IF Len(s) = 0 THEN <<x>>
    ELSE IF StringLess(x, Head(s)) THEN <<x>> \o s
    ELSE <<Head(s)>> \o SortInsert(x, Tail(s))

\* a faulty variant of Sort: the list is left in the order the provider gave
SortNoOp(s) == s

\* Array.prototype.sort() on a list of strings
RECURSIVE Sort(_)
Sort(s) == IF Len(s) = 0 THEN <<>> ELSE SortInsert(Head(s), Sort(Tail(s)))

\* xs.filter(x => !set.has(x))
FilterNotIn(xs, set) == SelectSeq(xs, LAMBDA x : x \notin set)

----------------------------------------------------------------------------
(* Utility and comparison functions *)

\* a faulty variant of cleanTransactionHash: the first two characters are dropped
\* without the startsWith test
cleanTransactionHashAlwaysSlice(h) == Slice(h, 2)

cleanTransactionHash(h) ==
    IF StartsWith(h, EscapePrefix) THEN Slice(h, 2) ELSE h

\* a faulty variant of compareAndGetStatus: the two differences are joined by || and
\* not by &&
compareAndGetStatusOr(dgHashes, hgHashes) ==
    LET dgSet == Range(dgHashes)
        hgSet == Range(hgHashes)
        missingInDragonGlass == FilterNotIn(hgHashes, dgSet)
        missingInHGraph == FilterNotIn(dgHashes, hgSet)
    IN  IF Len(missingInDragonGlass) = 0 \/ Len(missingInHGraph) = 0
        THEN [status |-> "match", discrepancies |-> Null]
        ELSE [status |-> "discrepancy_detected",
              discrepancies |->
                [missing_in_dragonglass |-> missingInDragonGlass,
                 missing_in_hgraph |-> missingInHGraph,
                 dragonglass_count |-> Len(dgHashes),
                 hgraph_count |-> Len(hgHashes)]]

\* a faulty variant of compareAndGetStatus: missingInHGraph is filtered against the
\* wrong set
compareAndGetStatusWrongSet(dgHashes, hgHashes) ==
    LET dgSet == Range(dgHashes)
        hgSet == Range(hgHashes)
        missingInDragonGlass == FilterNotIn(hgHashes, dgSet)
        missingInHGraph == FilterNotIn(dgHashes, dgSet)
    IN  IF Len(missingInDragonGlass) = 0 /\ Len(missingInHGraph) = 0
        THEN [status |-> "match", discrepancies |-> Null]
        ELSE [status |-> "discrepancy_detected",
              discrepancies |->
                [missing_in_dragonglass |-> missingInDragonGlass,
                 missing_in_hgraph |-> missingInHGraph,
                 dragonglass_count |-> Len(dgHashes),
                 hgraph_count |-> Len(hgHashes)]]

\* a faulty variant of compareAndGetStatus: the counts are the sizes of the sets
compareAndGetStatusSetCounts(dgHashes, hgHashes) ==
    LET dgSet == Range(dgHashes)
        hgSet == Range(hgHashes)
        missingInDragonGlass == FilterNotIn(hgHashes, dgSet)
        missingInHGraph == FilterNotIn(dgHashes, hgSet)
    IN  IF Len(missingInDragonGlass) = 0 /\ Len(missingInHGraph) = 0
        THEN [status |-> "match", discrepancies |-> Null]
        ELSE [status |-> "discrepancy_detected",
              discrepancies |->
                [missing_in_dragonglass |-> missingInDragonGlass,
                 missing_in_hgraph |-> missingInHGraph,
                 dragonglass_count |-> Cardinality(dgSet),
                 hgraph_count |-> Cardinality(hgSet)]]

compareAndGetStatus(dgHashes, hgHashes) ==
    LET dgSet == Range(dgHashes)
        hgSet == Range(hgHashes)
        missingInDragonGlass == FilterNotIn(hgHashes, dgSet)
        missingInHGraph == FilterNotIn(dgHashes, hgSet)
    IN  IF Len(missingInDragonGlass) = 0 /\ Len(missingInHGraph) = 0
        THEN [status |-> "match", discrepancies |-> Null]
        ELSE [status |-> "discrepancy_detected",
              discrepancies |->
                [missing_in_dragonglass |-> missingInDragonGlass,
                 missing_in_hgraph |-> missingInHGraph,
                 dragonglass_count |-> Len(dgHashes),
                 hgraph_count |-> Len(hgHashes)]]

\* A number too large for the integers of the model is held as the decimal
\* digits of its value, the value being the double JSON.parse produced.
BigNum(digits) == [t |-> "number", digits |-> digits]

DigitChar(d) ==
    CASE d = 0 -> "0" [] d = 1 -> "1" [] d = 2 -> "2" [] d = 3 -> "3"
      [] d = 4 -> "4" [] d = 5 -> "5" [] d = 6 -> "6" [] d = 7 -> "7"
      [] d = 8 -> "8" [] d = 9 -> "9"

DigitValue(c) == CHOOSE d \in 0..9 : DigitChar(d) = c

\* the decimal digits of a natural number
RECURSIVE DecimalDigits(_)
DecimalDigits(n) ==
    IF n < 10 THEN <<DigitChar(n)>>
    ELSE Append(DecimalDigits(n \div 10), DigitChar(n % 10))

\* the decimal digits of Math.abs(value), an integer
Digits(value) ==
    IF "digits" \in DOMAIN value THEN value.digits
    ELSE DecimalDigits(IF value.v < 0 THEN -value.v ELSE value.v)

IsNegative(value) == "v" \in DOMAIN value /\ value.v < 0

\* a > b for two naturals given by their digits
RECURSIVE DigitsGreater(_, _)
DigitsGreater(a, b) ==
    IF Len(a) # Len(b) THEN Len(a) > Len(b)
    ELSE IF Len(a) = 0 THEN FALSE
    ELSE IF Head(a) # Head(b) THEN DigitValue(Head(a)) > DigitValue(Head(b))
    ELSE DigitsGreater(Tail(a), Tail(b))

\* Number.MAX_SAFE_INTEGER, 2^53 - 1
MaxSafeInteger ==
    <<"9", "0", "0", "7", "1", "9", "9", "2", "5", "4", "7", "4", "0", "9", "9", "1">>

RECURSIVE StripTrailingZeros(_)
StripTrailingZeros(digits) ==
    IF Len(digits) > 1 /\ digits[Len(digits)] = "0"
    THEN StripTrailingZeros(SubSeq(digits, 1, Len(digits) - 1))
    ELSE digits

\* value.toString() of an integer-valued number: its decimal digits below
\* 1e21, and from there on the exponential form d.ddde+n
NumberToString(value) ==
    LET digits == Digits(value)
        sign == IF IsNegative(value) THEN <<"-">> ELSE <<>>
    IN  IF Len(digits) < 22 THEN sign \o digits
        ELSE LET mantissa == StripTrailingZeros(digits)
             IN  sign \o <<Head(mantissa)>>
                 \o (IF Len(mantissa) > 1 THEN <<".">> \o Tail(mantissa) ELSE <<>>)
                 \o <<"e", "+">> \o DecimalDigits(Len(digits) - 1)

\* s.includes("e+")
IncludesExponent(s) == \E i \in 1..(Len(s) - 1) : s[i] = "e" /\ s[i + 1] = "+"

TimestampKeys == {"consensus_timestamp", "valid_start_ns"}

\* lines 40-47: what is stored for a number under one of the timestamp keys;
\* Math.floor of an integer-valued number is the number
FixedTimestamp(value) ==
    IF IncludesExponent(NumberToString(value)) THEN Str(NumberToString(value))
    ELSE IF DigitsGreater(Digits(value), MaxSafeInteger)
    THEN Str(NumberToString(value))
    ELSE value

\* a faulty variant of fixIntegerPrecision: a number is rewritten under whichever
\* key it is stored
RECURSIVE fixIntegerPrecisionAnyKey(_)
fixIntegerPrecisionAnyKey(obj) ==
    IF obj.t \in {"null", "undefined"} THEN obj
    ELSE IF obj.t = "array"
         THEN Array([i \in 1..Len(obj.v) |-> fixIntegerPrecisionAnyKey(obj.v[i])])
    ELSE IF obj.t = "object"
         THEN [k \in DOMAIN obj |->
                 IF k = "t" THEN "object"
                 ELSE IF obj[k].t = "number" THEN FixedTimestamp(obj[k])
                 ELSE fixIntegerPrecisionAnyKey(obj[k])]
    ELSE obj

RECURSIVE fixIntegerPrecision(_)
fixIntegerPrecision(obj) ==
    IF obj.t \in {"null", "undefined"} THEN obj
    ELSE IF obj.t = "array"
         THEN Array([i \in 1..Len(obj.v) |-> fixIntegerPrecision(obj.v[i])])
    ELSE IF obj.t = "object"
         THEN [k \in DOMAIN obj |->
                 IF k = "t" THEN "object"
                 ELSE IF k \in TimestampKeys /\ obj[k].t = "number"
                 THEN FixedTimestamp(obj[k])
                 ELSE fixIntegerPrecision(obj[k])]
    ELSE obj

\* the envelope transformHGraphToDragonGlass returns for no transaction list
ZeroEnvelope ==
    [t |-> "object", size |-> Num(0), totalCount |-> Num(0), data |-> Array(<<>>),
     facets |-> [t |-> "object", transactionTypes |-> EmptyObject,
                 payerID |-> EmptyObject, serviceTypes |-> EmptyObject],
     mapping |-> Null]

\* `0.0.${id}`
AccountString(id) == Str(<<"0.0.", id.v>>)

\* one record of transformedData; the members derived from the timestamps,
\* the fee and the transfers of tx are not modelled
TransformTx(tx) ==
    [t |-> "object",
     transactionHash |-> Str(cleanTransactionHash(tx.transaction_hash.v)),
     payerID |-> AccountString(tx.payer_account_id),
     transactionType |-> Str("CRYPTO_TRANSFER"),
     serviceType |-> Str("CRYPTO"),
     source |-> Str("hgraphio")]

\* facets.payerID: for each payer of transformedData, how many records it has
PayerFacet(transformedData) ==
    [p \in {transformedData[i].payerID : i \in 1..Len(transformedData)} |->
        Num(Cardinality({i \in 1..Len(transformedData) :
                            transformedData[i].payerID = p}))]

\* a faulty variant of transformHGraphToDragonGlass: the Array.isArray test is left out
transformHGraphToDragonGlassNoArrayTest(hgraphData) ==
    IF hgraphData.t \in {"null", "undefined"}
    THEN ThrowError("Cannot read properties of " \o hgraphData.t)
    ELSE IF Falsy(Member(hgraphData, "transaction"))
    THEN ZeroEnvelope
    ELSE IF Member(hgraphData, "transaction").t # "array"
    THEN ThrowError("transactions.map is not a function")
    ELSE LET transactions == hgraphData.transaction.v
             transformedData ==
                [i \in 1..Len(transactions) |-> TransformTx(transactions[i])]
         IN  [t |-> "object",
              size |-> Num(Len(transformedData)),
              totalCount |-> Num(Len(transformedData)),
              data |-> Array(transformedData),
              facets |->
                [t |-> "object",
                 transactionTypes |->
                    [t |-> "object", CRYPTO_TRANSFER |-> Num(Len(transformedData))],
                 payerID |-> PayerFacet(transformedData),
                 serviceTypes |->
                    [t |-> "object", CRYPTO |-> Num(Len(transformedData))]],
              mapping |-> Null]

transformHGraphToDragonGlass(hgraphData) ==
    IF hgraphData.t \in {"null", "undefined"}
    THEN ThrowError("Cannot read properties of " \o hgraphData.t)
    ELSE IF \/ Falsy(Member(hgraphData, "transaction"))
            \/ Member(hgraphData, "transaction").t # "array"
    THEN ZeroEnvelope
    ELSE LET transactions == hgraphData.transaction.v
             transformedData ==
                [i \in 1..Len(transactions) |-> TransformTx(transactions[i])]
         IN  [t |-> "object",
              size |-> Num(Len(transformedData)),
              totalCount |-> Num(Len(transformedData)),
              data |-> Array(transformedData),
              facets |->
                [t |-> "object",
                 transactionTypes |->
                    [t |-> "object", CRYPTO_TRANSFER |-> Num(Len(transformedData))],
                 payerID |-> PayerFacet(transformedData),
                 serviceTypes |->
                    [t |-> "object", CRYPTO |-> Num(Len(transformedData))]],
              mapping |-> Null]

\* a falsy list member gives [], a member that is no array has no map
createCanonicalHashArray(data, source) ==
    IF data.t \in {"null", "undefined"}
    THEN ThrowError("Cannot read properties of " \o data.t)
    ELSE IF source = "dragonglass"
    THEN LET list == Member(data, "data")
         IN  IF Falsy(list) THEN Array(<<>>)
             ELSE IF list.t # "array" THEN ThrowError("data.data.map is not a function")
             ELSE Array(Sort([i \in 1..Len(list.v) |-> list.v[i].transactionHash.v]))
    ELSE IF source = "hgraphio"
    THEN LET list == Member(data, "transaction")
         IN  IF Falsy(list) THEN Array(<<>>)
             ELSE IF list.t # "array"
             THEN ThrowError("data.transaction.map is not a function")
             ELSE Array(Sort([i \in 1..Len(list.v) |->
                                cleanTransactionHash(list.v[i].transaction_hash.v)]))
    ELSE Array(<<>>)

----------------------------------------------------------------------------
(* API client functions *)

\* a faulty variant of DragonGlassFailure: the failure envelope carries no empty
\* response in its data
DragonGlassFailureNullData(message) ==
    [success |-> FALSE, error |-> message, source |-> "dragonglass", data |-> Null]

\* the envelope of the catch block of callDragonGlassAPI
DragonGlassFailure(message) ==
    [success |-> FALSE, error |-> message, source |-> "dragonglass",
     data |-> [t |-> "object", size |-> Num(0), totalCount |-> Num(0),
               data |-> Array(<<>>), facets |-> EmptyObject, mapping |-> Null]]

\* a faulty variant of HGraphFailure: the failure envelope carries no data
HGraphFailureNoData(message) ==
    [success |-> FALSE, error |-> message, source |-> "hgraphio", data |-> Null]

\* the envelope of the catch block of callHGraphAPI
HGraphFailure(message) ==
    [success |-> FALSE, error |-> message, source |-> "hgraphio",
     data |-> [t |-> "object", transaction |-> Array(<<>>)]]

\* callDragonGlassAPI once fetch has settled with `outcome` and, for a 2xx
\* response, response.json() with `body` (ParseError: it rejected)
callDragonGlassAPI(outcome, body) ==
    IF outcome = "network_error" THEN DragonGlassFailure("fetch failed")
    ELSE IF outcome = "not_ok"
    THEN DragonGlassFailure("Dragon Glass API responded with status: 500")
    ELSE IF IsThrow(body) THEN DragonGlassFailure(body.message)
    ELSE [success |-> TRUE, data |-> body, source |-> "dragonglass"]

\* a faulty variant of callHGraphAPI: only the status check is inside the try block,
\* so a rejected fetch or response.json() and the read of a null body leave
\* the function as exceptions
callHGraphAPINoCatch(outcome, body) ==
    IF outcome = "network_error" THEN ThrowError("fetch failed")
    ELSE IF outcome = "not_ok"
    THEN HGraphFailure("HGraph API responded with status: 500")
    ELSE IF IsThrow(body) THEN body
    ELSE IF body.t \in {"null", "undefined"}
    THEN ThrowError("Cannot read properties of " \o body.t)
    ELSE [success |-> TRUE, data |-> Member(body, "data"), source |-> "hgraphio"]

\* a faulty variant of callHGraphAPI: a body without data is a failure
callHGraphAPIDataRequired(outcome, body) ==
    IF outcome = "network_error" THEN HGraphFailure("fetch failed")
    ELSE IF outcome = "not_ok"
    THEN HGraphFailure("HGraph API responded with status: 500")
    ELSE IF IsThrow(body) THEN HGraphFailure(body.message)
    ELSE LET fixedResult == fixIntegerPrecision(body)
         IN  IF fixedResult.t \in {"null", "undefined"}
             THEN HGraphFailure("Cannot read properties of " \o fixedResult.t)
             ELSE IF Member(fixedResult, "data").t \in {"null", "undefined"}
             THEN HGraphFailure("no data")
             ELSE [success |-> TRUE, data |-> Member(fixedResult, "data"),
                   source |-> "hgraphio"]

\* callHGraphAPI likewise; reading fixedResult.data of a null body throws
\* inside the try block
callHGraphAPI(outcome, body) ==
    IF outcome = "network_error" THEN HGraphFailure("fetch failed")
    ELSE IF outcome = "not_ok"
    THEN HGraphFailure("HGraph API responded with status: 500")
    ELSE IF IsThrow(body) THEN HGraphFailure(body.message)
    ELSE LET fixedResult == fixIntegerPrecision(body)
         IN  IF fixedResult.t \in {"null", "undefined"}
             THEN HGraphFailure("Cannot read properties of " \o fixedResult.t)
             ELSE [success |-> TRUE, data |-> Member(fixedResult, "data"),
                   source |-> "hgraphio"]

\* a promise of an async function: pending until its body returns (resolved)
\* or an exception leaves it (rejected)
IdleCall == [st |-> "idle", outcome |-> "none", result |-> Undefined]
PendingCall == [st |-> "fetching", outcome |-> "none", result |-> Undefined]
Settled(outcome, result) ==
    [st |-> IF IsThrow(result) THEN "rejected" ELSE "resolved",
     outcome |-> outcome, result |-> result]

----------------------------------------------------------------------------
(* What the outside world can send: requests and provider responses *)

Routes == {"/api/transactions/compare", "/api/hgraph/transactions",
           "/api/hgraph/transactions/dg-format"}

ParamNames == {"payerID", "query", "accountFrom"}
AliasNames == {"payer_account_id", "decoded_memo", "crypto_transfer_entity_id"}

ParamValue(k) ==
    CASE k \in {"payerID", "payer_account_id"} -> Str("26027")
      [] k \in {"query", "decoded_memo"} -> Str("kpay.live")
      [] k \in {"accountFrom", "crypto_transfer_entity_id"} -> Str("657983")

\* req.query with exactly the parameters of `present`
QueryString(present) ==
    [k \in ParamNames \cup AliasNames |->
        IF k \in present THEN ParamValue(k) ELSE Undefined]

\* the alias names are read by /api/hgraph/transactions alone: the requests
\* to the other two routes carry none of them or all of them
Requests ==
    {[route |-> r, query |-> QueryString(named \cup aliases)] :
        r \in Routes, named \in SUBSET ParamNames, aliases \in SUBSET AliasNames}
    \ {q \in [route : Routes \ {"/api/hgraph/transactions"},
               query : {QueryString(present) :
                          present \in SUBSET (ParamNames \cup AliasNames)}] :
          \E k, l \in AliasNames : q.query[k] = Undefined /\ q.query[l] # Undefined}

\* GET /api/dashboard/status: the route reads no parameter
DashboardRequest == [route |-> "/api/dashboard/status", query |-> QueryString({})]

\* hashes as the explorer (Source A) and the indexer (Source B) may send them
DragonGlassRawHashes ==
    {<<"a", "b">>, <<"a", "c">>, <<"A", "B">>, <<"\\", "x", "a", "b">>}
HGraphRawHashes ==
    {<<"\\", "x", "a", "b">>, <<"\\", "x", "a", "c">>, <<"a", "b">>, <<"A", "B">>}

DragonGlassRecord(h) == [t |-> "object", transactionHash |-> Str(h)]
HGraphRecord(h) ==
    [t |-> "object", transaction_hash |-> Str(h), payer_account_id |-> Num(26027)]

DragonGlassBody(data) ==
    [t |-> "object", size |-> Num(7), totalCount |-> Num(9), data |-> data,
     facets |-> [t |-> "object", payerID |-> EmptyObject], mapping |-> Null]

\* what response.json() of the explorer can give: a rejection, null, an object
\* without members, an object whose data is no list, a transaction list
DragonGlassBodies ==
    {ThrowError("Unexpected token"), Null, EmptyObject, DragonGlassBody(EmptyObject)}
    \cup {DragonGlassBody(Array([i \in 1..Len(l) |-> DragonGlassRecord(l[i])])) :
             l \in SeqsUpTo(DragonGlassRawHashes, MaxTx)}

HGraphBody(data) == [t |-> "object", data |-> data]
HGraphData(transaction) == [t |-> "object", transaction |-> transaction]

\* what response.json() of the indexer can give: a rejection, null, an object
\* without data (a GraphQL error), data null, data without a transaction
\* member, a transaction member that is no list, a transaction list
HGraphBodies ==
    {ThrowError("Unexpected token"), Null,
     [t |-> "object", errors |-> Array(<<>>)], HGraphBody(Null),
     HGraphBody(EmptyObject), HGraphBody(HGraphData(EmptyObject))}
    \cup {HGraphBody(HGraphData(Array([i \in 1..Len(l) |-> HGraphRecord(l[i])]))) :
             l \in SeqsUpTo(HGraphRawHashes, MaxTx)}

\* how fetch settles: it rejects, or it resolves with a response that is ok
\* or not
FetchOutcomes == {"network_error", "not_ok", "ok"}

----------------------------------------------------------------------------
(* Route handlers *)

\* a faulty variant of BadRequest: res.json(...) without res.status(400)
BadRequestNoStatus(message) ==
    [status |-> 200,
     body |-> [success |-> FALSE, error |-> message, timestamp |-> "now"]]

BadRequest(message) ==
    [status |-> 400,
     body |-> [success |-> FALSE, error |-> message, timestamp |-> "now"]]

\* the catch block of a route handler, and its !result.success branch
ServerError(message) ==
    [status |-> 500,
     body |-> [success |-> FALSE, error |-> message, timestamp |-> "now"]]

OutboundCall(to, payerID, query, accountFrom) ==
    [to |-> to, payerID |-> payerID, query |-> query, accountFrom |-> accountFrom]

\* a faulty variant of PromiseAllSettled: the handler goes on as soon as one call has
\* settled
PromiseAnySettled(promises) ==
    \E i \in 1..Len(promises) : promises[i].st \in {"resolved", "rejected"}

\* a faulty variant of PromiseAllSettled: the handler goes on only when every call
\* has succeeded
PromiseAllSucceeded(promises) ==
    \A i \in 1..Len(promises) :
        promises[i].st = "resolved" /\ promises[i].result.success

\* await Promise.all(promises) goes on once every call has resolved, or as soon as
\* one has rejected
PromiseAllSettled(promises) ==
    \/ \A i \in 1..Len(promises) : promises[i].st = "resolved"
    \/ \E i \in 1..Len(promises) : promises[i].st = "rejected"

\* a faulty variant of CompareResponse: the canonicalized indexer data is attached
\* whatever the status
CompareResponseAlwaysAttach(dragonGlassResult, hgraphResult) ==
    IF dragonGlassResult = Undefined \/ hgraphResult = Undefined
    THEN ServerError("Cannot read properties of undefined")
    ELSE
    LET transformedHGraphData == transformHGraphToDragonGlass(hgraphResult.data)
        dgHashes == createCanonicalHashArray(dragonGlassResult.data, "dragonglass")
        hgHashes == createCanonicalHashArray(hgraphResult.data, "hgraphio")
    IN  IF IsThrow(transformedHGraphData) THEN ServerError(transformedHGraphData.message)
        ELSE IF IsThrow(dgHashes) THEN ServerError(dgHashes.message)
        ELSE IF IsThrow(hgHashes) THEN ServerError(hgHashes.message)
        ELSE
        LET result == compareAndGetStatus(dgHashes.v, hgHashes.v)
            comparison ==
                [status |-> result.status,
                 sources_called |-> <<"dragonglass", "hgraphio">>,
                 dragonglass_success |-> dragonGlassResult.success,
                 hgraphio_success |-> hgraphResult.success,
                 discrepancies |-> result.discrepancies,
                 canonical_hashes |->
                    [dragonglass |-> dgHashes.v, hgraphio |-> hgHashes.v]]
            data == dragonGlassResult.data
        IN  [status |-> 200,
             body |->
               [size |-> Or(Member(data, "size"), Num(0)),
                totalCount |-> Or(Member(data, "totalCount"), Num(0)),
                data |-> Or(Member(data, "data"), Array(<<>>)),
                facets |-> Or(Member(data, "facets"), EmptyObject),
                mapping |-> Or(Member(data, "mapping"), Null),
                metadata |->
                  [comparison |-> comparison, timestamp |-> "now",
                   additional_hgraph_data |-> transformedHGraphData]]]

\* the response of lines 494-549, from the two envelopes
CompareResponse(dragonGlassResult, hgraphResult) ==
    IF dragonGlassResult = Undefined \/ hgraphResult = Undefined
    THEN ServerError("Cannot read properties of undefined")
    ELSE
    LET transformedHGraphData == transformHGraphToDragonGlass(hgraphResult.data)
        dgHashes == createCanonicalHashArray(dragonGlassResult.data, "dragonglass")
        hgHashes == createCanonicalHashArray(hgraphResult.data, "hgraphio")
    IN  IF IsThrow(transformedHGraphData) THEN ServerError(transformedHGraphData.message)
        ELSE IF IsThrow(dgHashes) THEN ServerError(dgHashes.message)
        ELSE IF IsThrow(hgHashes) THEN ServerError(hgHashes.message)
        ELSE
        LET result == compareAndGetStatus(dgHashes.v, hgHashes.v)
            comparison ==
                [status |-> result.status,
                 sources_called |-> <<"dragonglass", "hgraphio">>,
                 dragonglass_success |-> dragonGlassResult.success,
                 hgraphio_success |-> hgraphResult.success,
                 discrepancies |-> result.discrepancies,
                 canonical_hashes |->
                    [dragonglass |-> dgHashes.v, hgraphio |-> hgHashes.v]]
            data == dragonGlassResult.data
        IN  [status |-> 200,
             body |->
               [size |-> Or(Member(data, "size"), Num(0)),
                totalCount |-> Or(Member(data, "totalCount"), Num(0)),
                data |-> Or(Member(data, "data"), Array(<<>>)),
                facets |-> Or(Member(data, "facets"), EmptyObject),
                mapping |-> Or(Member(data, "mapping"), Null),
                metadata |->
                  IF result.status = "discrepancy_detected"
                     /\ result.discrepancies # Null
                  THEN [comparison |-> comparison, timestamp |-> "now",
                        additional_hgraph_data |-> transformedHGraphData]
                  ELSE [comparison |-> comparison, timestamp |-> "now"]]]

\* { ...data, metadata }: the members of data, if it is an object, and metadata
SpreadWith(data, metadata) ==
    LET members == IF data.t = "object" THEN DOMAIN data \ {"t"} ELSE {}
    IN  [k \in members \cup {"metadata"} |->
            IF k = "metadata" THEN metadata ELSE data[k]]

\* the response of lines 400-416, from the envelope
HGraphResponse(result) ==
    IF ~result.success THEN ServerError(result.error)
    ELSE [status |-> 200,
          body |-> SpreadWith(result.data,
                     [source |-> "hgraphio", precision_fixed |-> TRUE,
                      timestamp |-> "now"])]

\* the response of lines 443-462, from the envelope
DgFormatResponse(hgraphResult) ==
    IF ~hgraphResult.success THEN ServerError(hgraphResult.error)
    ELSE LET transformedData == transformHGraphToDragonGlass(hgraphResult.data)
         IN  IF IsThrow(transformedData) THEN ServerError(transformedData.message)
             ELSE [status |-> 200,
                   body |-> SpreadWith(transformedData,
                              [source |-> "hgraphio_converted_to_dragonglass_format",
                               original_source |-> "hgraphio",
                               transformation_applied |-> TRUE,
                               precision_fixed |-> TRUE,
                               timestamp |-> "now"])]

\* the catch block of the dashboard route
DashboardError(message) ==
    [status |-> 500,
     body |-> [error |-> "Dashboard error", message |-> message, timestamp |-> "now"]]

\* list?.length || 0
LengthOrZero(list) ==
    IF list.t \in {"undefined", "null"} THEN 0
    ELSE IF list.t = "array" THEN Len(list.v)
    ELSE 0

\* a faulty variant of DashboardResponse: bug_detected is set on every discrepancy
DashboardResponseAnyDiscrepancy(dragonGlassResult, hgraphResult) ==
    LET dgHashes == createCanonicalHashArray(dragonGlassResult.data, "dragonglass")
        hgHashes == createCanonicalHashArray(hgraphResult.data, "hgraphio")
    IN  IF IsThrow(dgHashes) THEN DashboardError(dgHashes.message)
        ELSE IF IsThrow(hgHashes) THEN DashboardError(hgHashes.message)
        ELSE
        LET result == compareAndGetStatus(dgHashes.v, hgHashes.v)
        IN  [status |-> 200,
             body |->
               [timestamp |-> "now",
                sources |->
                  [dragonglass |->
                     [status |-> IF dragonGlassResult.success
                                 THEN "online" ELSE "offline",
                      count |-> LengthOrZero(Member(dragonGlassResult.data, "data")),
                      last_checked |-> "now"],
                   hgraphio |->
                     [status |-> IF hgraphResult.success THEN "online" ELSE "offline",
                      count |-> LengthOrZero(Member(hgraphResult.data, "transaction")),
                      last_checked |-> "now"]],
                discrepancies |-> result.discrepancies,
                overall_status |-> result.status,
                bug_detected |-> result.status = "discrepancy_detected",
                dashboard_url |-> "protocol://host/dashboard",
                api_documentation_url |-> "protocol://host/dashboard"]]

\* the response of lines 571-622, from the two envelopes; test_urls, three
\* strings built from the protocol and the host of the request, is left out
DashboardResponse(dragonGlassResult, hgraphResult) ==
    LET dgHashes == createCanonicalHashArray(dragonGlassResult.data, "dragonglass")
        hgHashes == createCanonicalHashArray(hgraphResult.data, "hgraphio")
    IN  IF IsThrow(dgHashes) THEN DashboardError(dgHashes.message)
        ELSE IF IsThrow(hgHashes) THEN DashboardError(hgHashes.message)
        ELSE
        LET result == compareAndGetStatus(dgHashes.v, hgHashes.v)
        IN  [status |-> 200,
             body |->
               [timestamp |-> "now",
                sources |->
                  [dragonglass |->
                     [status |-> IF dragonGlassResult.success
                                 THEN "online" ELSE "offline",
                      count |-> LengthOrZero(Member(dragonGlassResult.data, "data")),
                      last_checked |-> "now"],
                   hgraphio |->
                     [status |-> IF hgraphResult.success THEN "online" ELSE "offline",
                      count |-> LengthOrZero(Member(hgraphResult.data, "transaction")),
                      last_checked |-> "now"]],
                discrepancies |-> result.discrepancies,
                overall_status |-> result.status,
                bug_detected |->
                  /\ result.status = "discrepancy_detected"
                  /\ result.discrepancies # Null
                  /\ Len(result.discrepancies.missing_in_dragonglass) > 0,
                dashboard_url |-> "protocol://host/dashboard",
                api_documentation_url |-> "protocol://host/dashboard"]]

\* GET /api/transactions/compare up to its await: the parameters are checked
\* and both clients are called, each running up to its await of fetch
ReceiveCompare ==
    /\ pc = "received"
    /\ req.route = "/api/transactions/compare"
    /\ LET payerID == req.query.payerID
           query == req.query.query
           accountFrom == req.query.accountFrom
       IN  IF Falsy(payerID) \/ Falsy(query) \/ Falsy(accountFrom)
           THEN /\ response' = BadRequest(
                      "Missing required parameters: payerID, query, and accountFrom")
                /\ pc' = "responded"
                /\ UNCHANGED <<dragonGlassCall, hgraphCall, outbound>>
           ELSE /\ dragonGlassCall' = PendingCall
                /\ hgraphCall' = PendingCall
                /\ outbound' = outbound \o
                      <<OutboundCall("dragonglass", payerID, query, accountFrom),
                        OutboundCall("hgraphio", payerID, query, accountFrom)>>
                /\ pc' = "awaiting"
                /\ UNCHANGED response
    /\ UNCHANGED <<req, harnessVars>>

\* GET /api/transactions/compare after its await
RespondCompare ==
    /\ pc = "awaiting"
    /\ req.route = "/api/transactions/compare"
    /\ PromiseAllSettled(<<dragonGlassCall, hgraphCall>>)
    /\ response' =
         IF dragonGlassCall.st = "rejected"
         THEN ServerError(dragonGlassCall.result.message)
         ELSE IF hgraphCall.st = "rejected"
         THEN ServerError(hgraphCall.result.message)
         ELSE CompareResponse(dragonGlassCall.result, hgraphCall.result)
    /\ pc' = "responded"
    /\ UNCHANGED <<req, dragonGlassCall, hgraphCall, outbound, harnessVars>>

\* GET /api/hgraph/transactions up to its await
ReceiveHGraph ==
    /\ pc = "received"
    /\ req.route = "/api/hgraph/transactions"
    /\ LET payerID == Or(req.query.payer_account_id, req.query.payerID)
           query == Or(req.query.decoded_memo, req.query.query)
           accountFrom == Or(req.query.crypto_transfer_entity_id,
                             req.query.accountFrom)
       IN  IF Falsy(payerID) \/ Falsy(query) \/ Falsy(accountFrom)
           THEN /\ response' = BadRequest(
                      "Missing required parameters: payerID, query, and accountFrom are required")
                /\ pc' = "responded"
                /\ UNCHANGED <<hgraphCall, outbound>>
           ELSE /\ hgraphCall' = PendingCall
                /\ outbound' = Append(outbound,
                      OutboundCall("hgraphio", payerID, query, accountFrom))
                /\ pc' = "awaiting"
                /\ UNCHANGED response
    /\ UNCHANGED <<req, dragonGlassCall, harnessVars>>

\* GET /api/hgraph/transactions after its await
RespondHGraph ==
    /\ pc = "awaiting"
    /\ req.route = "/api/hgraph/transactions"
    /\ hgraphCall.st \in {"resolved", "rejected"}
    /\ response' =
         IF hgraphCall.st = "rejected" THEN ServerError(hgraphCall.result.message)
         ELSE HGraphResponse(hgraphCall.result)
    /\ pc' = "responded"
    /\ UNCHANGED <<req, dragonGlassCall, hgraphCall, outbound, harnessVars>>

\* GET /api/hgraph/transactions/dg-format up to its await
ReceiveDgFormat ==
    /\ pc = "received"
    /\ req.route = "/api/hgraph/transactions/dg-format"
    /\ LET payerID == req.query.payerID
           query == req.query.query
           accountFrom == req.query.accountFrom
       IN  IF Falsy(payerID) \/ Falsy(query) \/ Falsy(accountFrom)
           THEN /\ response' = BadRequest(
                      "Missing required parameters: payerID, query, and accountFrom")
                /\ pc' = "responded"
                /\ UNCHANGED <<hgraphCall, outbound>>
           ELSE /\ hgraphCall' = PendingCall
                /\ outbound' = Append(outbound,
                      OutboundCall("hgraphio", payerID, query, accountFrom))
                /\ pc' = "awaiting"
                /\ UNCHANGED response
    /\ UNCHANGED <<req, dragonGlassCall, harnessVars>>

\* GET /api/hgraph/transactions/dg-format after its await
RespondDgFormat ==
    /\ pc = "awaiting"
    /\ req.route = "/api/hgraph/transactions/dg-format"
    /\ hgraphCall.st \in {"resolved", "rejected"}
    /\ response' =
         IF hgraphCall.st = "rejected" THEN ServerError(hgraphCall.result.message)
         ELSE DgFormatResponse(hgraphCall.result)
    /\ pc' = "responded"
    /\ UNCHANGED <<req, dragonGlassCall, hgraphCall, outbound, harnessVars>>

\* GET /api/dashboard/status up to its await: both clients are called with
\* the fixed filter, each running up to its await of fetch
ReceiveDashboard ==
    /\ pc = "received"
    /\ req.route = "/api/dashboard/status"
    /\ dragonGlassCall' = PendingCall
    /\ hgraphCall' = PendingCall
    /\ outbound' = outbound \o
          <<OutboundCall("dragonglass", Str("26027"), Str("kpay.live"), Str("657983")),
            OutboundCall("hgraphio", Str("26027"), Str("kpay.live"), Str("657983"))>>
    /\ pc' = "awaiting"
    /\ UNCHANGED <<req, response, harnessVars>>

\* GET /api/dashboard/status after its await
RespondDashboard ==
    /\ pc = "awaiting"
    /\ req.route = "/api/dashboard/status"
    /\ PromiseAllSettled(<<dragonGlassCall, hgraphCall>>)
    /\ response' =
         IF dragonGlassCall.st = "rejected"
         THEN DashboardError(dragonGlassCall.result.message)
         ELSE IF hgraphCall.st = "rejected"
         THEN DashboardError(hgraphCall.result.message)
         ELSE DashboardResponse(dragonGlassCall.result, hgraphCall.result)
    /\ pc' = "responded"
    /\ UNCHANGED <<req, dragonGlassCall, hgraphCall, outbound, harnessVars>>

\* the fetch of callDragonGlassAPI settles
DragonGlassFetchSettles ==
    /\ dragonGlassCall.st = "fetching"
    /\ \E outcome \in FetchOutcomes :
         dragonGlassCall' =
            IF outcome = "ok"
            THEN [st |-> "json", outcome |-> "none", result |-> Undefined]
            ELSE Settled(outcome, callDragonGlassAPI(outcome, Undefined))
    /\ UNCHANGED <<req, pc, hgraphCall, outbound, response, harnessVars>>

\* response.json() of callDragonGlassAPI settles
DragonGlassJsonSettles ==
    /\ dragonGlassCall.st = "json"
    /\ \E body \in DragonGlassBodies :
         dragonGlassCall' =
            Settled(IF IsThrow(body) THEN "parse_error" ELSE "ok",
                    callDragonGlassAPI("ok", body))
    /\ UNCHANGED <<req, pc, hgraphCall, outbound, response, harnessVars>>

\* the fetch of callHGraphAPI settles
HGraphFetchSettles ==
    /\ hgraphCall.st = "fetching"
    /\ \E outcome \in FetchOutcomes :
         hgraphCall' =
            IF outcome = "ok"
            THEN [st |-> "json", outcome |-> "none", result |-> Undefined]
            ELSE Settled(outcome, callHGraphAPI(outcome, Undefined))
    /\ UNCHANGED <<req, pc, dragonGlassCall, outbound, response, harnessVars>>

\* response.json() of callHGraphAPI settles
HGraphJsonSettles ==
    /\ hgraphCall.st = "json"
    /\ \E body \in HGraphBodies :
         hgraphCall' =
            Settled(IF IsThrow(body) THEN "parse_error" ELSE "ok",
                    callHGraphAPI("ok", body))
    /\ UNCHANGED <<req, pc, dragonGlassCall, outbound, response, harnessVars>>

OtherIdle ==
    /\ fixInput = Undefined
    /\ fixOutput = Pending
    /\ fixOutputTwice = Pending
    /\ transformInput = Undefined
    /\ transformOutput = Pending
    /\ inflight = <<>>

HarnessIdle ==
    /\ hash = <<>>
    /\ cleaned = <<>>
    /\ cleanedTwice = <<>>
    /\ cleanCalls = 0
    /\ dragonGlassHashes = <<>>
    /\ hgraphHashes = <<>>
    /\ comparisonResult = Undefined
    /\ swappedResult = Undefined
    /\ OtherIdle

HandlerIdle ==
    /\ req = [route |-> "none", query |-> QueryString({})]
    /\ pc = "idle"
    /\ dragonGlassCall = IdleCall
    /\ hgraphCall = IdleCall
    /\ outbound = <<>>
    /\ response = Undefined

Init ==
    /\ req \in Requests \cup {DashboardRequest}
    /\ pc = "received"
    /\ dragonGlassCall = IdleCall
    /\ hgraphCall = IdleCall
    /\ outbound = <<>>
    /\ response = Undefined
    /\ HarnessIdle

Next ==
    \/ ReceiveCompare
    \/ RespondCompare
    \/ ReceiveHGraph
    \/ RespondHGraph
    \/ ReceiveDgFormat
    \/ RespondDgFormat
    \/ ReceiveDashboard
    \/ RespondDashboard
    \/ DragonGlassFetchSettles
    \/ DragonGlassJsonSettles
    \/ HGraphFetchSettles
    \/ HGraphJsonSettles

Spec == Init /\ [][Next]_vars

\* the continuation of the route handler after its await can run
ReadyToRespond ==
    /\ pc = "awaiting"
    /\ IF req.route \in {"/api/transactions/compare", "/api/dashboard/status"}
       THEN PromiseAllSettled(<<dragonGlassCall, hgraphCall>>)
       ELSE hgraphCall.st \in {"resolved", "rejected"}

\* The event loop runs every continuation that is ready: weak fairness of
\* the Receive actions and of the Respond actions.  A Respond action changes
\* pc and is enabled exactly when ReadyToRespond holds, so its fairness is
\* written with that guard in the place of ENABLED.
HandlerFairness ==
    /\ WF_vars(ReceiveCompare) /\ WF_vars(ReceiveHGraph)
    /\ WF_vars(ReceiveDgFormat) /\ WF_vars(ReceiveDashboard)
    /\ \/ []<>(~ReadyToRespond)
       \/ []<><<ReadyToRespond /\ pc' = "responded">>_vars

\* Every outbound request settles, its fetch and then its response.json().
ProviderFairness ==
    /\ WF_vars(DragonGlassFetchSettles) /\ WF_vars(DragonGlassJsonSettles)
    /\ WF_vars(HGraphFetchSettles) /\ WF_vars(HGraphJsonSettles)

FairSpec == Spec /\ HandlerFairness /\ ProviderFairness

\* nothing is assumed of the outbound requests
HandlerFairSpec == Spec /\ HandlerFairness

----------------------------------------------------------------------------
(* cleanTransactionHash on its own: every string over the escape           *)
(* characters and a hex digit, cleaned once and then once more             *)

CleanChars == {"\\", "x", "a"}

CleanInit ==
    /\ HandlerIdle
    /\ hash \in SeqsUpTo(CleanChars, MaxStrLen)
    /\ cleaned = <<>>
    /\ cleanedTwice = <<>>
    /\ cleanCalls = 0
    /\ dragonGlassHashes = <<>>
    /\ hgraphHashes = <<>>
    /\ comparisonResult = Undefined
    /\ swappedResult = Undefined
    /\ OtherIdle

CleanOnce ==
    /\ cleanCalls = 0
    /\ cleaned' = cleanTransactionHash(hash)
    /\ cleanCalls' = 1
    /\ UNCHANGED <<hash, cleanedTwice, dragonGlassHashes, hgraphHashes,
                   comparisonResult, swappedResult, otherVars, handlerVars>>

CleanAgain ==
    /\ cleanCalls = 1
    /\ cleanedTwice' = cleanTransactionHash(cleaned)
    /\ cleanCalls' = 2
    /\ UNCHANGED <<hash, cleaned, dragonGlassHashes, hgraphHashes,
                   comparisonResult, swappedResult, otherVars, handlerVars>>

CleanNext == CleanOnce \/ CleanAgain

CleanSpec == CleanInit /\ [][CleanNext]_vars

----------------------------------------------------------------------------
(* compareAndGetStatus on its own: every pair of hash lists, in any order  *)
(* and with duplicates, compared both ways round                           *)

CompareHashes == {<<"a", "b">>, <<"a", "c">>, <<"A", "B">>}

CompareInit ==
    /\ HandlerIdle
    /\ hash = <<>>
    /\ cleaned = <<>>
    /\ cleanedTwice = <<>>
    /\ cleanCalls = 0
    /\ dragonGlassHashes \in SeqsUpTo(CompareHashes, MaxLen)
    /\ hgraphHashes \in SeqsUpTo(CompareHashes, MaxLen)
    /\ comparisonResult = Undefined
    /\ swappedResult = Undefined
    /\ OtherIdle

Compare ==
    /\ comparisonResult = Undefined
    /\ comparisonResult' = compareAndGetStatus(dragonGlassHashes, hgraphHashes)
    /\ UNCHANGED <<hash, cleaned, cleanedTwice, cleanCalls, dragonGlassHashes,
                   hgraphHashes, swappedResult, otherVars, handlerVars>>

CompareSwapped ==
    /\ swappedResult = Undefined
    /\ swappedResult' = compareAndGetStatus(hgraphHashes, dragonGlassHashes)
    /\ UNCHANGED <<hash, cleaned, cleanedTwice, cleanCalls, dragonGlassHashes,
                   hgraphHashes, comparisonResult, otherVars, handlerVars>>

CompareNext == Compare \/ CompareSwapped

CompareSpec == CompareInit /\ [][CompareNext]_vars

----------------------------------------------------------------------------
(* fixIntegerPrecision on its own: indexer responses whose records hold    *)
(* numbers of every size, strings, null and containers under the           *)
(* timestamp keys and under another key, fixed once and then once more     *)

\* 9007199254740991, the largest exact integer, and its successor
SafeNumber == BigNum(MaxSafeInteger)
UnsafeNumber ==
    BigNum(<<"9", "0", "0", "7", "1", "9", "9", "2", "5", "4", "7", "4", "0", "9", "9", "2">>)
\* a timestamp in nanoseconds, 1700000000123456800
NanosNumber ==
    BigNum(<<"1", "7", "0", "0", "0", "0", "0", "0", "0", "0", "1", "2", "3", "4",
             "5", "6", "8", "0", "0">>)
\* 1.5e+21, which prints in exponential form
ExponentNumber ==
    BigNum(<<"1", "5", "0", "0", "0", "0", "0", "0", "0", "0", "0", "0", "0", "0",
             "0", "0", "0", "0", "0", "0", "0", "0">>)

FixTimestampValues ==
    {Num(0), Num(-5), SafeNumber, UnsafeNumber, NanosNumber, ExponentNumber,
     Str(<<"1", "7">>), Null,
     Array(<<NanosNumber>>),
     [t |-> "object", valid_start_ns |-> NanosNumber, max_fee |-> UnsafeNumber]}

FixRecords ==
    {[t |-> "object", consensus_timestamp |-> c, valid_start_ns |-> v,
      charged_tx_fee |-> f, transaction_hash |-> Str(<<"a", "b">>)] :
        c \in FixTimestampValues,
        v \in {NanosNumber, Str(<<"1", "7">>)},
        f \in {Num(5), UnsafeNumber}}

FixInputs ==
    {Null, Undefined, Num(5), NanosNumber, Str(<<"a", "b">>), EmptyObject,
     HGraphBody(Null)}
    \cup {HGraphBody(HGraphData(Array(l))) : l \in SeqsUpTo(FixRecords, MaxTx)}

FixInit ==
    /\ HandlerIdle
    /\ hash = <<>>
    /\ cleaned = <<>>
    /\ cleanedTwice = <<>>
    /\ cleanCalls = 0
    /\ dragonGlassHashes = <<>>
    /\ hgraphHashes = <<>>
    /\ comparisonResult = Undefined
    /\ swappedResult = Undefined
    /\ fixInput \in FixInputs
    /\ fixOutput = Pending
    /\ fixOutputTwice = Pending
    /\ transformInput = Undefined
    /\ transformOutput = Pending
    /\ inflight = <<>>

FixOnce ==
    /\ fixOutput = Pending
    /\ fixOutput' = fixIntegerPrecision(fixInput)
    /\ UNCHANGED <<hash, cleaned, cleanedTwice, dragonGlassHashes, hgraphHashes,
                   comparisonResult, swappedResult, cleanCalls, fixInput,
                   fixOutputTwice, transformInput, transformOutput, inflight,
                   handlerVars>>

FixAgain ==
    /\ fixOutput # Pending
    /\ fixOutputTwice = Pending
    /\ fixOutputTwice' = fixIntegerPrecision(fixOutput)
    /\ UNCHANGED <<hash, cleaned, cleanedTwice, dragonGlassHashes, hgraphHashes,
                   comparisonResult, swappedResult, cleanCalls, fixInput,
                   fixOutput, transformInput, transformOutput, inflight,
                   handlerVars>>

FixNext == FixOnce \/ FixAgain

FixSpec == FixInit /\ [][FixNext]_vars

----------------------------------------------------------------------------
(* transformHGraphToDragonGlass on its own: indexer data without a         *)
(* transaction list, with a member that is no list, and with lists of      *)
(* records of two payers                                                   *)

TransformPayers == {26027, 31}

TransformRecords ==
    {[HGraphRecord(h) EXCEPT !.payer_account_id = Num(p)] :
        h \in {<<"\\", "x", "a", "b">>, <<"a", "c">>}, p \in TransformPayers}

TransformInputs ==
    {Null, Undefined, EmptyObject, HGraphData(Null), HGraphData(Undefined),
     HGraphData(EmptyObject), HGraphData(Str(<<"a", "b">>)), HGraphData(Num(5))}
    \cup {HGraphData(Array(l)) : l \in SeqsUpTo(TransformRecords, MaxLen)}

TransformInit ==
    /\ HandlerIdle
    /\ hash = <<>>
    /\ cleaned = <<>>
    /\ cleanedTwice = <<>>
    /\ cleanCalls = 0
    /\ dragonGlassHashes = <<>>
    /\ hgraphHashes = <<>>
    /\ comparisonResult = Undefined
    /\ swappedResult = Undefined
    /\ fixInput = Undefined
    /\ fixOutput = Pending
    /\ fixOutputTwice = Pending
    /\ transformInput \in TransformInputs
    /\ transformOutput = Pending
    /\ inflight = <<>>

Transform ==
    /\ transformOutput = Pending
    /\ transformOutput' = transformHGraphToDragonGlass(transformInput)
    /\ UNCHANGED <<hash, cleaned, cleanedTwice, dragonGlassHashes, hgraphHashes,
                   comparisonResult, swappedResult, cleanCalls, fixInput,
                   fixOutput, fixOutputTwice, transformInput, inflight,
                   handlerVars>>

TransformNext == Transform

TransformSpec == TransformInit /\ [][TransformNext]_vars

----------------------------------------------------------------------------
(* Two compare requests in flight at once: each invocation of the handler  *)
(* has its own locals (inflight[id]), and the completions of the four      *)
(* outbound calls interleave in any order                                  *)

RequestIds == {1, 2}

\* req.query of each request: all three parameters, a payer of its own
InflightQuery(id) ==
    [QueryString(ParamNames) EXCEPT
        !.payerID = IF id = 1 THEN Str("26027") ELSE Str("31")]

\* what a provider answers to one request: how fetch settles and, for a 2xx
\* response, what response.json() gives
NoReply == [outcome |-> "none", body |-> Undefined]

DragonGlassReplies ==
    {[outcome |-> "network_error", body |-> Undefined]}
    \cup {[outcome |-> "ok",
           body |-> DragonGlassBody(Array([i \in 1..Len(l) |-> DragonGlassRecord(l[i])]))] :
             l \in SeqsUpTo({<<"a", "b">>, <<"a", "c">>}, MaxInflightTx)}

HGraphReplies ==
    {[outcome |-> "not_ok", body |-> Undefined],
     [outcome |-> "ok", body |-> [t |-> "object", errors |-> Array(<<>>)]]}
    \cup {[outcome |-> "ok",
           body |-> HGraphBody(HGraphData(Array([i \in 1..Len(l) |-> HGraphRecord(l[i])])))] :
             l \in SeqsUpTo({<<"\\", "x", "a", "b">>, <<"a", "c">>}, MaxInflightTx)}

\* a faulty variant of AwaitedResults: the indexer result is kept in a variable of
\* the module, written by the first request whose call resolves
AwaitedResultsShared(id) ==
    LET resolved == {j \in RequestIds : inflight[j].hgraphCall.st = "resolved"}
        first == CHOOSE j \in resolved : \A k \in resolved : j <= k
    IN  <<inflight[id].dragonGlassCall.result, inflight[first].hgraphCall.result>>

\* const [dragonGlassResult, hgraphResult] = await Promise.all([...]): the
\* locals of the invocation that serves request id
AwaitedResults(id) ==
    <<inflight[id].dragonGlassCall.result, inflight[id].hgraphCall.result>>

IsolationInit ==
    /\ HandlerIdle
    /\ hash = <<>>
    /\ cleaned = <<>>
    /\ cleanedTwice = <<>>
    /\ cleanCalls = 0
    /\ dragonGlassHashes = <<>>
    /\ hgraphHashes = <<>>
    /\ comparisonResult = Undefined
    /\ swappedResult = Undefined
    /\ fixInput = Undefined
    /\ fixOutput = Pending
    /\ fixOutputTwice = Pending
    /\ transformInput = Undefined
    /\ transformOutput = Pending
    /\ inflight = [id \in RequestIds |->
                     [query |-> InflightQuery(id), pc |-> "received",
                      dragonGlassCall |-> IdleCall, hgraphCall |-> IdleCall,
                      dragonGlassReply |-> NoReply, hgraphReply |-> NoReply,
                      outbound |-> <<>>, response |-> Undefined]]

IsolationUnchanged ==
    UNCHANGED <<hash, cleaned, cleanedTwice, dragonGlassHashes, hgraphHashes,
                comparisonResult, swappedResult, cleanCalls, fixInput, fixOutput,
                fixOutputTwice, transformInput, transformOutput, handlerVars>>

\* the handler of request id up to its await
InflightReceive(id) ==
    /\ inflight[id].pc = "received"
    /\ LET payerID == inflight[id].query.payerID
           query == inflight[id].query.query
           accountFrom == inflight[id].query.accountFrom
       IN  inflight' =
             IF Falsy(payerID) \/ Falsy(query) \/ Falsy(accountFrom)
             THEN [inflight EXCEPT
                     ![id].response = BadRequest(
                        "Missing required parameters: payerID, query, and accountFrom"),
                     ![id].pc = "responded"]
             ELSE [inflight EXCEPT
                     ![id].dragonGlassCall = PendingCall,
                     ![id].hgraphCall = PendingCall,
                     ![id].outbound =
                        <<OutboundCall("dragonglass", payerID, query, accountFrom),
                          OutboundCall("hgraphio", payerID, query, accountFrom)>>,
                     ![id].pc = "awaiting"]
    /\ IsolationUnchanged

\* the fetch of the callDragonGlassAPI of request id settles
InflightDragonGlassFetchSettles(id) ==
    /\ inflight[id].dragonGlassCall.st = "fetching"
    /\ \E reply \in DragonGlassReplies :
         inflight' =
            [inflight EXCEPT
               ![id].dragonGlassReply = reply,
               ![id].dragonGlassCall =
                  IF reply.outcome = "ok"
                  THEN [st |-> "json", outcome |-> "none", result |-> Undefined]
                  ELSE Settled(reply.outcome,
                               callDragonGlassAPI(reply.outcome, Undefined))]
    /\ IsolationUnchanged

\* its response.json() settles
InflightDragonGlassJsonSettles(id) ==
    /\ inflight[id].dragonGlassCall.st = "json"
    /\ inflight' =
         [inflight EXCEPT
            ![id].dragonGlassCall =
               Settled("ok", callDragonGlassAPI("ok", inflight[id].dragonGlassReply.body))]
    /\ IsolationUnchanged

\* the fetch of the callHGraphAPI of request id settles
InflightHGraphFetchSettles(id) ==
    /\ inflight[id].hgraphCall.st = "fetching"
    /\ \E reply \in HGraphReplies :
         inflight' =
            [inflight EXCEPT
               ![id].hgraphReply = reply,
               ![id].hgraphCall =
                  IF reply.outcome = "ok"
                  THEN [st |-> "json", outcome |-> "none", result |-> Undefined]
                  ELSE Settled(reply.outcome,
                               callHGraphAPI(reply.outcome, Undefined))]
    /\ IsolationUnchanged

\* its response.json() settles
InflightHGraphJsonSettles(id) ==
    /\ inflight[id].hgraphCall.st = "json"
    /\ inflight' =
         [inflight EXCEPT
            ![id].hgraphCall =
               Settled("ok", callHGraphAPI("ok", inflight[id].hgraphReply.body))]
    /\ IsolationUnchanged

\* the handler of request id after its await
InflightRespond(id) ==
    /\ inflight[id].pc = "awaiting"
    /\ PromiseAllSettled(<<inflight[id].dragonGlassCall, inflight[id].hgraphCall>>)
    /\ inflight' =
         [inflight EXCEPT
            ![id].response =
               IF inflight[id].dragonGlassCall.st = "rejected"
               THEN ServerError(inflight[id].dragonGlassCall.result.message)
               ELSE IF inflight[id].hgraphCall.st = "rejected"
               THEN ServerError(inflight[id].hgraphCall.result.message)
               ELSE CompareResponse(AwaitedResults(id)[1], AwaitedResults(id)[2]),
            ![id].pc = "responded"]
    /\ IsolationUnchanged

IsolationNext ==
    \E id \in RequestIds :
        \/ InflightReceive(id)
        \/ InflightDragonGlassFetchSettles(id)
        \/ InflightDragonGlassJsonSettles(id)
        \/ InflightHGraphFetchSettles(id)
        \/ InflightHGraphJsonSettles(id)
        \/ InflightRespond(id)

IsolationSpec == IsolationInit /\ [][IsolationNext]_vars

----------------------------------------------------------------------------
(* Claims about compareAndGetStatus (checked under CompareSpec)            *)

\* C1: for every pair of hash lists, duplicates and empty lists included,
\* compareAndGetStatus returns status "match" exactly when the two lists have
\* the same set of elements, and "discrepancy_detected" otherwise.
C1_MatchIffSameSets ==
    comparisonResult # Undefined =>
        /\ comparisonResult.status \in {"match", "discrepancy_detected"}
        /\ comparisonResult.status = "match"
             <=> Range(dragonGlassHashes) = Range(hgraphHashes)

\* a match between two lists of different lengths: duplicates do not count
C1_Witness ==
    /\ comparisonResult # Undefined
    /\ comparisonResult.status = "match"
    /\ Len(dragonGlassHashes) > Len(hgraphHashes)
    /\ Len(hgraphHashes) > 0

\* C2: when the sets of the two lists differ, the missing_in_dragonglass list
\* of compare(H1, H2) is the missing_in_hgraph list of compare(H2, H1), the
\* other difference list and the two counts are swapped likewise, and the
\* status is the same.
C2_SwapSwapsDifferences ==
    (/\ comparisonResult # Undefined
     /\ swappedResult # Undefined
     /\ Range(dragonGlassHashes) # Range(hgraphHashes)) =>
        /\ comparisonResult.status = "discrepancy_detected"
        /\ swappedResult.status = "discrepancy_detected"
        /\ comparisonResult.discrepancies.missing_in_dragonglass
             = swappedResult.discrepancies.missing_in_hgraph
        /\ comparisonResult.discrepancies.missing_in_hgraph
             = swappedResult.discrepancies.missing_in_dragonglass
        /\ comparisonResult.discrepancies.dragonglass_count
             = swappedResult.discrepancies.hgraph_count
        /\ comparisonResult.discrepancies.hgraph_count
             = swappedResult.discrepancies.dragonglass_count

\* both ways round were compared and each side lacks a hash of the other
C2_Witness ==
    /\ comparisonResult # Undefined
    /\ swappedResult # Undefined
    /\ comparisonResult.status = "discrepancy_detected"
    /\ Len(comparisonResult.discrepancies.missing_in_dragonglass) > 0
    /\ Len(comparisonResult.discrepancies.missing_in_hgraph) > 0
    /\ Len(dragonGlassHashes) # Len(hgraphHashes)

\* C3: on discrepancy_detected, missing_in_dragonglass holds exactly the
\* hashes of the hgraph list that the dragonglass list lacks,
\* missing_in_hgraph exactly the hashes of the dragonglass list that the
\* hgraph list lacks, and the two counts are the lengths of the input lists,
\* duplicates counted; when the dragonglass hashes are a strict subset of the
\* hgraph hashes, missing_in_hgraph is empty.
C3_DifferencesAndCounts ==
    (/\ comparisonResult # Undefined
     /\ comparisonResult.status = "discrepancy_detected") =>
        LET d == comparisonResult.discrepancies
        IN  /\ Range(d.missing_in_dragonglass)
                 = Range(hgraphHashes) \ Range(dragonGlassHashes)
            /\ Range(d.missing_in_hgraph)
                 = Range(dragonGlassHashes) \ Range(hgraphHashes)
            /\ d.dragonglass_count = Len(dragonGlassHashes)
            /\ d.hgraph_count = Len(hgraphHashes)
            /\ (/\ Range(dragonGlassHashes) \subseteq Range(hgraphHashes)
                /\ Range(dragonGlassHashes) # Range(hgraphHashes))
                 => /\ d.missing_in_hgraph = <<>>
                    /\ Len(d.missing_in_dragonglass) > 0

\* the dragonglass hashes are a strict subset of the hgraph hashes, and the
\* dragonglass list repeats a hash: its count is not the size of its set
C3_Witness ==
    /\ comparisonResult # Undefined
    /\ comparisonResult.status = "discrepancy_detected"
    /\ Range(dragonGlassHashes) \subseteq Range(hgraphHashes)
    /\ comparisonResult.discrepancies.missing_in_hgraph = <<>>
    /\ comparisonResult.discrepancies.dragonglass_count
         > Cardinality(Range(dragonGlassHashes))

----------------------------------------------------------------------------
(* Claims about cleanTransactionHash (checked under CleanSpec)             *)

\* C4 as stated: cleaning is idempotent: for every hash string, strings that
\* begin with the escape prefix more than once included, cleaning the cleaned
\* hash gives the cleaned hash.
C4_CleanIdempotent ==
    cleanCalls = 2 => cleanedTwice = cleaned

\* C4 as amended: for every hash string that does not begin with the escape
\* prefix twice in a row, cleaning the cleaned hash gives the cleaned hash.
C4_CleanIdempotentOnePrefix ==
    (cleanCalls = 2 /\ ~StartsWith(hash, EscapePrefix \o EscapePrefix))
        => cleanedTwice = cleaned

\* a hash with one escape prefix was cleaned twice: the first cleaning
\* stripped the prefix and the second changed nothing
C4_Witness ==
    /\ cleanCalls = 2
    /\ StartsWith(hash, EscapePrefix)
    /\ ~StartsWith(hash, EscapePrefix \o EscapePrefix)
    /\ Len(cleaned) = Len(hash) - 2
    /\ Len(cleaned) > 0
    /\ cleanedTwice = cleaned

----------------------------------------------------------------------------
(* Claims about the hash extractor and the route handlers (checked under   *)
(* Spec)                                                                   *)

CompareAnswered ==
    /\ pc = "responded"
    /\ req.route = "/api/transactions/compare"
    /\ response.status # 400

\* the transaction lists the two providers returned, when both returned one
BothReturnedLists ==
    /\ dragonGlassCall.st = "resolved"
    /\ hgraphCall.st = "resolved"
    /\ dragonGlassCall.result.data.t = "object"
    /\ Member(dragonGlassCall.result.data, "data").t = "array"
    /\ hgraphCall.result.data.t = "object"
    /\ Member(hgraphCall.result.data, "transaction").t = "array"

SourceARecords == dragonGlassCall.result.data.data.v
SourceBRecords == hgraphCall.result.data.transaction.v

ToLower(c) == CASE c = "A" -> "a" [] c = "B" -> "b" [] OTHER -> c
LowerCase(h) == [i \in 1..Len(h) |-> ToLower(h[i])]
WithoutPrefix(h) == IF StartsWith(h, EscapePrefix) THEN Slice(h, 2) ELSE h

\* two hash strings that differ only in letter case, or only in the presence
\* of the escape prefix
SameTransaction(a, b) ==
    \/ LowerCase(a) = LowerCase(b)
    \/ WithoutPrefix(a) = WithoutPrefix(b)

\* C5: a Source-A record and a Source-B record whose hashes differ only in
\* letter case, or only in the presence of the escape prefix on either side,
\* are the same transaction: the compare response reports neither of them as
\* missing.
C5_CaseAndPrefixInsensitive ==
    (CompareAnswered /\ response.status = 200 /\ BothReturnedLists) =>
        \A i \in 1..Len(SourceARecords), j \in 1..Len(SourceBRecords) :
            LET a == SourceARecords[i].transactionHash.v
                b == SourceBRecords[j].transaction_hash.v
                d == response.body.metadata.comparison.discrepancies
            IN  SameTransaction(a, b) =>
                    \/ d = Null
                    \/ /\ a \notin Range(d.missing_in_hgraph)
                       /\ cleanTransactionHash(b) \notin Range(d.missing_in_dragonglass)

\* the rearrangements of a list
Rearrangements(s) ==
    {p \in SeqsUpTo(Range(s), Len(s)) :
        /\ Len(p) = Len(s)
        /\ \A x \in Range(s) :
              Cardinality({i \in 1..Len(p) : p[i] = x})
                = Cardinality({i \in 1..Len(s) : s[i] = x})}

\* C6: in whichever order each provider returns its transactions, the
\* canonical hash lists, the status and the two difference lists of the
\* compare response are the same.
C6_OrderIndependent ==
    (CompareAnswered /\ response.status = 200 /\ BothReturnedLists) =>
        \A pa \in Rearrangements(SourceARecords), pb \in Rearrangements(SourceBRecords) :
            LET a == createCanonicalHashArray(
                        [dragonGlassCall.result.data EXCEPT !.data = Array(pa)],
                        "dragonglass")
                b == createCanonicalHashArray(
                        [hgraphCall.result.data EXCEPT !.transaction = Array(pb)],
                        "hgraphio")
                comparison == response.body.metadata.comparison
                again == compareAndGetStatus(a.v, b.v)
            IN  /\ a.v = comparison.canonical_hashes.dragonglass
                /\ b.v = comparison.canonical_hashes.hgraphio
                /\ again.status = comparison.status
                /\ again.discrepancies = comparison.discrepancies

\* both providers returned two different hashes, Source A in descending order
C6_Witness ==
    /\ CompareAnswered
    /\ response.status = 200
    /\ BothReturnedLists
    /\ Len(SourceARecords) = 2
    /\ Len(SourceBRecords) = 2
    /\ StringLess(SourceARecords[2].transactionHash.v,
                  SourceARecords[1].transactionHash.v)
    /\ SourceBRecords[1] # SourceBRecords[2]
    /\ response.body.metadata.comparison.status = "discrepancy_detected"

\* a provider call that failed by a network error or a non-2xx status
Down(call) ==
    /\ call.st = "resolved"
    /\ call.outcome \in {"network_error", "not_ok"}

\* a provider call that answered 2xx with a body that parsed
Succeeded(call) ==
    /\ call.st = "resolved"
    /\ call.outcome = "ok"
    /\ call.result.success

\* a parsed body of the documented shape: an object whose list member is
\* absent or a list
WellFormed(call, member) ==
    /\ call.result.data.t = "object"
    /\ \/ Falsy(Member(call.result.data, member))
       \/ Member(call.result.data, member).t = "array"

\* what C7 promises of the response when exactly one provider is down
OneDownReport ==
    LET comparison == response.body.metadata.comparison
    IN  /\ response.status = 200
        /\ comparison.dragonglass_success = ~Down(dragonGlassCall)
        /\ comparison.hgraphio_success = ~Down(hgraphCall)
        /\ Down(dragonGlassCall) =>
              /\ response.body.data = Array(<<>>)
              /\ comparison.canonical_hashes.dragonglass = <<>>
              /\ LET list == Member(hgraphCall.result.data, "transaction")
                     n == IF Falsy(list) THEN 0 ELSE Len(list.v)
                 IN  /\ Len(comparison.canonical_hashes.hgraphio) = n
                     /\ \A i \in 1..n :
                           cleanTransactionHash(list.v[i].transaction_hash.v)
                             \in Range(comparison.canonical_hashes.hgraphio)
        /\ Down(hgraphCall) =>
              /\ comparison.canonical_hashes.hgraphio = <<>>
              /\ LET list == Member(dragonGlassCall.result.data, "data")
                     n == IF Falsy(list) THEN 0 ELSE Len(list.v)
                 IN  /\ Len(comparison.canonical_hashes.dragonglass) = n
                     /\ \A i \in 1..n :
                           list.v[i].transactionHash.v
                             \in Range(comparison.canonical_hashes.dragonglass)

\* C7 as stated: on the compare route, when exactly one provider call fails
\* (non-2xx or network error) and the other succeeds, the answer is 200 with
\* the failed provider's flag false, the other true, an empty list for the
\* failed side and the surviving provider's canonical hash list.
C7_OneDownStill200 ==
    (/\ CompareAnswered
     /\ \/ Down(dragonGlassCall) /\ Succeeded(hgraphCall)
        \/ Down(hgraphCall) /\ Succeeded(dragonGlassCall))
        => response.status = 200 /\ OneDownReport

\* C7 as amended: the same, when the surviving provider's 2xx body has the
\* documented shape (an object whose transaction list is absent or a list).
C7_OneDownStill200WellFormed ==
    (/\ CompareAnswered
     /\ \/ /\ Down(dragonGlassCall)
           /\ Succeeded(hgraphCall)
           /\ WellFormed(hgraphCall, "transaction")
        \/ /\ Down(hgraphCall)
           /\ Succeeded(dragonGlassCall)
           /\ WellFormed(dragonGlassCall, "data"))
        => response.status = 200 /\ OneDownReport

\* the explorer failed by a network error and the indexer returned two
\* transactions, which the answer lists
C7_Witness ==
    /\ CompareAnswered
    /\ dragonGlassCall.st = "resolved"
    /\ dragonGlassCall.outcome = "network_error"
    /\ Succeeded(hgraphCall)
    /\ WellFormed(hgraphCall, "transaction")
    /\ response.status = 200
    /\ Len(response.body.metadata.comparison.canonical_hashes.hgraphio) = 2
    /\ ~response.body.metadata.comparison.dragonglass_success

\* the envelope a client settled with has the members of its documented shape
EnvelopeOf(call, source, emptyData) ==
    LET r == call.result
    IN  /\ {"success", "source", "data"} \subseteq DOMAIN r
        /\ r.source = source
        /\ call.outcome \in {"network_error", "not_ok", "parse_error"}
              => ~r.success
        /\ ~r.success => "error" \in DOMAIN r /\ r.data = emptyData
        /\ r.success => call.outcome = "ok"

\* C8: neither client ever rejects: whatever the outbound request does, the
\* call resolves to an envelope, and on every failure the envelope is
\* {success: false, error, source, data} with the empty data of that source.
C8_ClientsAlwaysResolve ==
    /\ dragonGlassCall.st # "rejected"
    /\ hgraphCall.st # "rejected"
    /\ dragonGlassCall.st = "resolved" =>
          EnvelopeOf(dragonGlassCall, "dragonglass",
             [t |-> "object", size |-> Num(0), totalCount |-> Num(0),
              data |-> Array(<<>>), facets |-> EmptyObject, mapping |-> Null])
    /\ hgraphCall.st = "resolved" =>
          EnvelopeOf(hgraphCall, "hgraphio",
             [t |-> "object", transaction |-> Array(<<>>)])

\* the indexer's body failed to parse and the explorer's request failed: both
\* calls resolved to failure envelopes
C8_Witness ==
    /\ hgraphCall.st = "resolved"
    /\ hgraphCall.outcome = "parse_error"
    /\ ~hgraphCall.result.success
    /\ dragonGlassCall.st = "resolved"
    /\ dragonGlassCall.outcome = "network_error"
    /\ ~dragonGlassCall.result.success

\* the answer C9 promises: 400, a failure body, and no outbound call
Refused ==
    /\ outbound = <<>>
    /\ pc = "responded" =>
          /\ response.status = 400
          /\ DOMAIN response.body = {"success", "error", "timestamp"}
          /\ ~response.body.success

\* C9 as stated: on each of the three transaction routes, a request that
\* lacks payerID, query or accountFrom is answered 400 with
\* {success: false, error, timestamp}, and no outbound call is ever issued.
C9_MissingParameter400 ==
    (req.route \in Routes /\ \E k \in ParamNames : req.query[k] = Undefined)
        => Refused

\* the other name /api/hgraph/transactions reads a parameter under
AliasOf(k) ==
    CASE k = "payerID" -> "payer_account_id"
      [] k = "query" -> "decoded_memo"
      [] k = "accountFrom" -> "crypto_transfer_entity_id"

\* C9 as amended: the same, where on /api/hgraph/transactions a parameter is
\* absent only if its alias (payer_account_id, decoded_memo,
\* crypto_transfer_entity_id) is absent too.
C9_MissingParameter400Alias ==
    (/\ req.route \in Routes
     /\ \E k \in ParamNames :
           /\ req.query[k] = Undefined
           /\ req.route = "/api/hgraph/transactions"
                 => req.query[AliasOf(k)] = Undefined)
        => Refused

\* /api/hgraph/transactions was refused a request that names query and
\* accountFrom by their aliases and no payer at all
C9_Witness ==
    /\ pc = "responded"
    /\ req.route = "/api/hgraph/transactions"
    /\ req.query.payerID = Undefined
    /\ req.query.payer_account_id = Undefined
    /\ req.query.decoded_memo # Undefined
    /\ req.query.crypto_transfer_entity_id # Undefined
    /\ response.status = 400
    /\ outbound = <<>>

\* what C10 says of one step of a compare request and of the state it leads to
C10_Step ==
    req.route = "/api/transactions/compare" =>
        \* both calls are started in the same step
        /\ (dragonGlassCall'.st = "idle") = (hgraphCall'.st = "idle")
        /\ (dragonGlassCall.st = "idle" /\ dragonGlassCall'.st # "idle")
              => dragonGlassCall'.st = "fetching" /\ hgraphCall'.st = "fetching"
        \* a call that settles, with a failure or not, leaves the other as it is
        /\ (dragonGlassCall.st # "idle" /\ dragonGlassCall' # dragonGlassCall)
              => hgraphCall' = hgraphCall
        /\ (hgraphCall.st # "idle" /\ hgraphCall' # hgraphCall)
              => dragonGlassCall' = dragonGlassCall
        \* no response before both have settled
        /\ (response' # Undefined /\ pc'= "responded" /\ dragonGlassCall'.st # "idle")
              => /\ dragonGlassCall'.st \in {"resolved", "rejected"}
                 /\ hgraphCall'.st \in {"resolved", "rejected"}
        /\ (dragonGlassCall'.st \notin {"idle", "resolved", "rejected"}
            \/ hgraphCall'.st \notin {"idle", "resolved", "rejected"})
              => response' = Undefined

\* C10: in the compare handler both provider calls are in flight before
\* either settles, a call that fails leaves the other in flight, and no
\* response is sent until both have settled.
C10_BothInFlightThenBothSettled == [][C10_Step]_vars

\* the explorer call has failed, the indexer call is still in flight and
\* nothing has been answered
C10_Witness ==
    /\ req.route = "/api/transactions/compare"
    /\ pc = "awaiting"
    /\ dragonGlassCall.st = "resolved"
    /\ ~dragonGlassCall.result.success
    /\ hgraphCall.st = "fetching"
    /\ response = Undefined

\* C11: in every 200 answer of the compare route,
\* metadata.additional_hgraph_data is present exactly when the comparison
\* status is discrepancy_detected; when the two canonical hash lists hold the
\* same set of hashes the status is match, discrepancies is null and
\* additional_hgraph_data is absent; when present it is
\* transformHGraphToDragonGlass of the indexer data of that request.
C11_AdditionalDataIffDiscrepancy ==
    (CompareAnswered /\ response.status = 200) =>
        LET metadata == response.body.metadata
            comparison == metadata.comparison
            attached == "additional_hgraph_data" \in DOMAIN metadata
        IN  /\ attached <=> comparison.status = "discrepancy_detected"
            /\ Range(comparison.canonical_hashes.dragonglass)
                  = Range(comparison.canonical_hashes.hgraphio)
                 => /\ comparison.status = "match"
                    /\ comparison.discrepancies = Null
                    /\ ~attached
            /\ attached =>
                 metadata.additional_hgraph_data
                    = transformHGraphToDragonGlass(hgraphCall.result.data)

\* the indexer returned two transactions of which the explorer returned one:
\* both canonicalized records are attached
C11_Witness ==
    /\ CompareAnswered
    /\ response.status = 200
    /\ BothReturnedLists
    /\ Len(SourceARecords) = 1
    /\ Len(SourceBRecords) = 2
    /\ "additional_hgraph_data" \in DOMAIN response.body.metadata
    /\ Len(response.body.metadata.additional_hgraph_data.data.v) = 2
    /\ response.body.metadata.comparison.discrepancies.missing_in_hgraph = <<>>

DashboardAnswered ==
    /\ pc = "responded"
    /\ req.route = "/api/dashboard/status"

\* the hashes of the indexer's answer that the explorer's answer lacks
MissingInSourceA ==
    Range(createCanonicalHashArray(hgraphCall.result.data, "hgraphio").v)
        \ Range(createCanonicalHashArray(dragonGlassCall.result.data, "dragonglass").v)

\* C12: in every 200 answer of the dashboard route, bug_detected is true
\* exactly when overall_status is discrepancy_detected and
\* missing_in_dragonglass is not empty, that is when Source A lacks a hash
\* Source B has; it is false on a match and when the only differences are
\* hashes missing in Source B.
C12_BugDetectedIffSourceALacks ==
    (DashboardAnswered /\ response.status = 200) =>
        LET body == response.body
            d == body.discrepancies
        IN  /\ body.bug_detected \in BOOLEAN
            /\ body.bug_detected
                 <=> /\ body.overall_status = "discrepancy_detected"
                     /\ d # Null
                     /\ d.missing_in_dragonglass # <<>>
            /\ body.bug_detected <=> MissingInSourceA # {}
            /\ body.overall_status = "match" => ~body.bug_detected
            /\ (d # Null /\ d.missing_in_dragonglass = <<>>) => ~body.bug_detected

\* the explorer returned a hash the indexer lacks and nothing else differs:
\* a discrepancy that is no bug of Source A
C12_Witness ==
    /\ DashboardAnswered
    /\ response.status = 200
    /\ response.body.overall_status = "discrepancy_detected"
    /\ response.body.discrepancies.missing_in_dragonglass = <<>>
    /\ Len(response.body.discrepancies.missing_in_hgraph) = 1
    /\ response.body.sources.hgraphio.count = 1
    /\ ~response.body.bug_detected

\* C13: in the 200 answer of the compare route, size, totalCount, data,
\* facets and mapping are those of Source A's envelope, and every record of
\* the top-level data list carries the source tag "dragonglass".
C13_DataFromSourceATagged ==
    (CompareAnswered /\ response.status = 200) =>
        LET envelope == dragonGlassCall.result.data
            body == response.body
        IN  /\ \A k \in {"size", "totalCount", "facets", "mapping"} :
                  ~Falsy(Member(envelope, k)) => body[k] = envelope[k]
            /\ body.data.t = "array"
            /\ Len(body.data.v) = LengthOrZero(Member(envelope, "data"))
            /\ \A i \in 1..Len(body.data.v) :
                  /\ body.data.v[i].transactionHash
                        = envelope.data.v[i].transactionHash
                  /\ "source" \in DOMAIN body.data.v[i]
                  /\ body.data.v[i].source = Str("dragonglass")

----------------------------------------------------------------------------
(* Claims about fixIntegerPrecision (checked under FixSpec)                *)

\* a number that exceeds the exact-integer range or prints in exponential form
OutOfRange(value) ==
    \/ DigitsGreater(Digits(value), MaxSafeInteger)
    \/ Len(Digits(value)) >= 22

\* `after` is `before` but for out-of-range numbers stored under a timestamp
\* key, each replaced by a string: same keys, same lengths, same order, and
\* every other value equal
RECURSIVE SameButTimestamps(_, _)
SameButTimestamps(before, after) ==
    IF before.t = "array"
    THEN /\ after.t = "array"
         /\ Len(after.v) = Len(before.v)
         /\ \A i \in 1..Len(before.v) : SameButTimestamps(before.v[i], after.v[i])
    ELSE IF before.t = "object"
    THEN /\ after.t = "object"
         /\ DOMAIN after = DOMAIN before
         /\ \A k \in DOMAIN before \ {"t"} :
               IF k \in TimestampKeys /\ before[k].t = "number"
               THEN IF OutOfRange(before[k])
                    THEN after[k].t = "string"
                    ELSE after[k] = before[k]
               ELSE SameButTimestamps(before[k], after[k])
    ELSE after = before

\* C14: fixIntegerPrecision changes nothing but numbers stored under
\* consensus_timestamp or valid_start_ns that exceed the exact-integer range
\* or print in exponential form: every other key, every nested object and
\* array, null and undefined, and every value under the two keys that is no
\* number or is within the range comes out equal to the input; applied to
\* its own output it changes nothing further.
C14_OnlyTimestampsChange ==
    /\ fixOutput # Pending => SameButTimestamps(fixInput, fixOutput)
    /\ fixOutputTwice # Pending => fixOutputTwice = fixOutput

\* a record whose consensus_timestamp was the largest exact integer and kept
\* as it was, whose valid_start_ns was rewritten as a string, and whose fee,
\* out of range under another key, was kept as it was
C14_Witness ==
    /\ fixOutputTwice # Pending
    /\ fixInput.t = "object"
    /\ Member(fixInput, "data").t = "object"
    /\ Len(fixInput.data.transaction.v) > 0
    /\ LET before == fixInput.data.transaction.v[1]
           after == fixOutput.data.transaction.v[1]
       IN  /\ before.consensus_timestamp = SafeNumber
           /\ after.consensus_timestamp = SafeNumber
           /\ before.valid_start_ns = NanosNumber
           /\ after.valid_start_ns = Str(NanosNumber.digits)
           /\ before.charged_tx_fee = UnsafeNumber
           /\ after.charged_tx_fee = UnsafeNumber

----------------------------------------------------------------------------
(* Claims about transformHGraphToDragonGlass (checked under TransformSpec) *)

\* the sum of the counts of a facet
RECURSIVE SumOfCounts(_)
SumOfCounts(facet) ==
    LET keys == DOMAIN facet
    IN  IF keys = {} THEN 0
        ELSE LET k == CHOOSE x \in keys : TRUE
             IN  facet[k].v + SumOfCounts([x \in DOMAIN facet \ {k} |-> facet[x]])

----------------------------------------------------------------------------
(* Claims about the progress of a compare request (checked under FairSpec) *)

CompareRequested == req.route = "/api/transactions/compare"

Unsettled(call) == call.st \in {"fetching", "json"}

\* C16: every request to the compare route is answered, provided each
\* outbound call settles; it is answered once, the answer never changing
\* afterwards; and as long as one of its provider calls has not settled it
\* has no answer, whether or not the other call has settled.
C16_AnsweredExactlyOnce ==
    /\ [](CompareRequested => <>(pc = "responded" /\ response # Undefined))
    /\ [][CompareRequested =>
            /\ response # Undefined => response' = response
            /\ pc = "responded" => pc' = "responded"]_vars
    /\ []((CompareRequested
           /\ (Unsettled(dragonGlassCall) \/ Unsettled(hgraphCall)))
             => (response = Undefined /\ pc = "awaiting"))

\* The same progress without the assumption on the outbound calls: it does
\* not hold, a request whose call never settles is never answered.
AnsweredWhateverTheProviders ==
    [](CompareRequested => <>(pc = "responded"))

\* a compare request was answered 200 after both providers had answered with
\* a status that is not 2xx
C16_Witness ==
    /\ CompareRequested
    /\ pc = "responded"
    /\ response.status = 200
    /\ dragonGlassCall.outcome = "not_ok"
    /\ hgraphCall.outcome = "not_ok"

----------------------------------------------------------------------------
(* Claims about concurrent requests (checked under IsolationSpec)          *)

\* the answer to a compare request that is served alone and whose providers
\* reply with dragonGlassReply and hgraphReply
AnswerAlone(dragonGlassReply, hgraphReply) ==
    CompareResponse(
        callDragonGlassAPI(dragonGlassReply.outcome, dragonGlassReply.body),
        callHGraphAPI(hgraphReply.outcome, hgraphReply.body))

\* C17: when two compare requests are in flight at once and the completions
\* of their provider calls interleave in any order, the answer to each
\* (data, success flags, canonical hash lists, discrepancies) is computed
\* from the provider replies to that request alone and is the answer the
\* request gets when served alone; its outbound calls carry its own
\* parameters.
C17_RequestsIsolated ==
    \A id \in RequestIds :
        /\ inflight[id].pc = "responded" =>
              inflight[id].response
                 = AnswerAlone(inflight[id].dragonGlassReply, inflight[id].hgraphReply)
        /\ \A i \in 1..Len(inflight[id].outbound) :
              inflight[id].outbound[i].payerID = inflight[id].query.payerID

\* the second request was answered with a discrepancy while the first, whose
\* indexer replied first and otherwise, awaits its explorer
C17_Witness ==
    /\ inflight[2].pc = "responded"
    /\ inflight[2].response.status = 200
    /\ inflight[2].response.body.metadata.comparison.status = "discrepancy_detected"
    /\ inflight[1].pc = "awaiting"
    /\ inflight[1].hgraphCall.st = "resolved"
    /\ inflight[1].dragonGlassCall.st = "fetching"
    /\ inflight[1].hgraphReply # inflight[2].hgraphReply
    /\ inflight[1].hgraphReply.outcome = "ok"

----------------------------------------------------------------------------
(* Claims about malformed 2xx bodies and failed calls (checked under Spec) *)

\* the answer of the catch block of the compare route
CaughtByRoute ==
    /\ response.status = 500
    /\ DOMAIN response.body = {"success", "error", "timestamp"}
    /\ ~response.body.success

\* C18: when the indexer answers 2xx with a JSON object that has no data
\* member, or whose data member is null, callHGraphAPI returns success: true
\* with data undefined or null, and the compare route then answers 500
\* {success: false, error, timestamp} and no 200 report with
\* hgraphio_success false; likewise a 2xx explorer response whose body is
\* null makes the compare route answer 500.
C18_MalformedBodyGives500 ==
    /\ \A body \in HGraphBodies :
          (~IsThrow(body) /\ body.t = "object"
           /\ Member(body, "data").t \in {"undefined", "null"})
             => callHGraphAPI("ok", body)
                   = [success |-> TRUE, data |-> Member(body, "data"),
                      source |-> "hgraphio"]
    /\ (/\ CompareAnswered
        /\ hgraphCall.st = "resolved"
        /\ hgraphCall.result.success
        /\ hgraphCall.result.data.t \in {"undefined", "null"})
          => CaughtByRoute
    /\ (/\ CompareAnswered
        /\ dragonGlassCall.st = "resolved"
        /\ dragonGlassCall.result.success
        /\ dragonGlassCall.result.data = Null)
          => CaughtByRoute

\* the explorer returned a transaction and the indexer a 2xx body without
\* data: the request was answered 500
C18_Witness ==
    /\ CompareAnswered
    /\ dragonGlassCall.st = "resolved"
    /\ dragonGlassCall.result.success
    /\ dragonGlassCall.result.data.t = "object"
    /\ LengthOrZero(Member(dragonGlassCall.result.data, "data")) = 1
    /\ hgraphCall.st = "resolved"
    /\ hgraphCall.outcome = "ok"
    /\ hgraphCall.result.success
    /\ hgraphCall.result.data = Undefined
    /\ response.status = 500

\* C19: the status is computed from the hash lists alone, whatever the
\* success flags: when both provider calls of a compare request fail, the
\* answer is 200 with status "match", discrepancies null, no
\* additional_hgraph_data, and dragonglass_success and hgraphio_success both
\* false; and on the dashboard, when Source A fails while Source B returns at
\* least one transaction, bug_detected is true.
C19_StatusIgnoresSuccessFlags ==
    /\ (/\ CompareAnswered
        /\ dragonGlassCall.st = "resolved" /\ ~dragonGlassCall.result.success
        /\ hgraphCall.st = "resolved" /\ ~hgraphCall.result.success)
          => /\ response.status = 200
             /\ response.body.metadata.comparison.status = "match"
             /\ response.body.metadata.comparison.discrepancies = Null
             /\ "additional_hgraph_data" \notin DOMAIN response.body.metadata
             /\ ~response.body.metadata.comparison.dragonglass_success
             /\ ~response.body.metadata.comparison.hgraphio_success
    /\ (/\ DashboardAnswered
        /\ dragonGlassCall.st = "resolved" /\ ~dragonGlassCall.result.success
        /\ hgraphCall.st = "resolved" /\ hgraphCall.result.success
        /\ hgraphCall.result.data.t = "object"
        /\ LengthOrZero(Member(hgraphCall.result.data, "transaction")) > 0)
          => /\ response.status = 200
             /\ response.body.bug_detected
             /\ response.body.sources.dragonglass.status = "offline"

\* the dashboard reports a bug of Source A while the explorer is offline and
\* the indexer returned two transactions
C19_Witness ==
    /\ DashboardAnswered
    /\ response.status = 200
    /\ dragonGlassCall.outcome = "network_error"
    /\ response.body.sources.dragonglass.status = "offline"
    /\ response.body.sources.hgraphio.status = "online"
    /\ response.body.sources.hgraphio.count = 2
    /\ response.body.bug_detected

====
